---------------------------- MODULE Spec2Model ----------------------------
(***************************************************************************)
(* The node-edit pipeline of src/features/modals/NodeModal/index.tsx.      *)
(*                                                                         *)
(* Representation.                                                         *)
(*  - A JSON value is a record [t, b, n, s, m] (type tag, boolean,         *)
(*    number, string, ordered members).  An array keeps its elements as    *)
(*    members with the key "".                                             *)
(*  - The document text held by the useJson store is represented by the    *)
(*    ordered syntax tree jsonc-parser's parseTree builds from it          *)
(*    (whitespace and comments are not represented); NoText is the empty   *)
(*    text, which has no root.                                             *)
(*  - The text of the edit surface (editedValue) is a sequence of tokens:  *)
(*    a quoted string literal Q(s) or a bare run of characters T(s).       *)
(*    The empty sequence is the empty string.                              *)
(*  - React state is updated when the handler returns; an action is one    *)
(*    handler together with the render that follows it.  The useEffect of  *)
(*    lines 119-122 is its own action, run when its dependencies differ    *)
(*    from the ones it last ran with; React flushes it before the next     *)
(*    event is handled, so every event waits for it (Settled).             *)
(***************************************************************************)
EXTENDS Integers, Sequences, FiniteSets, TLC

VARIABLES
  nodeData,     \* useGraph: state.selectedNode
  opened,       \* prop: the modal is shown
  editing,      \* useState(false)
  editedValue,  \* useState("")
  json,         \* useJson: the canonical document text
  contents,     \* useFile: the text of the mirrored text editor
  effectDeps,   \* [nodeData?.id, opened] as of the last run of the effect
  jsonAtStart,  \* history, while editing: the store's text when startEdit ran
  draftOwner,   \* history, while editing: the id of the node startEdit ran on
  depsChanged,  \* history: id/opened changed and no handler ran since
  saves,        \* history: the calls of saveEdit that reached line 62
  last          \* history: what the last step did

vars == <<nodeData, opened, editing, editedValue, json, contents,
          effectDeps, jsonAtStart, draftOwner, depsChanged, saves, last>>

(***************************************************************************)
(* JSON values                                                             *)
(***************************************************************************)
Null == [t |-> "null", b |-> FALSE, n |-> 0, s |-> "", m |-> <<>>]
Bool(x) == [t |-> "boolean", b |-> x, n |-> 0, s |-> "", m |-> <<>>]
Num(x) == [t |-> "number", b |-> FALSE, n |-> x, s |-> "", m |-> <<>>]
Str(x) == [t |-> "string", b |-> FALSE, n |-> 0, s |-> x, m |-> <<>>]
Obj(ms) == [t |-> "object", b |-> FALSE, n |-> 0, s |-> "", m |-> ms]
Arr(ms) == [t |-> "array", b |-> FALSE, n |-> 0, s |-> "", m |-> ms]
Member(k, v) == [k |-> k, v |-> v]
Elem(v) == [k |-> "", v |-> v]
\* the text with no root node (the empty document)
NoText == [t |-> "none", b |-> FALSE, n |-> 0, s |-> "", m |-> <<>>]

\* path segments: typeof seg === "string" or "number"
Key(s) == [isIdx |-> FALSE, key |-> s, idx |-> 0]
Idx(i) == [isIdx |-> TRUE, key |-> "", idx |-> i]

(***************************************************************************)
(* Text tokens                                                             *)
(***************************************************************************)
T(s) == [q |-> FALSE, s |-> s]
Q(s) == [q |-> TRUE, s |-> s]

\* decimal numerals of the numbers the model uses
Numeral == <<"0", "1", "2", "3">>
IsNumeral(s) == \E i \in 1..Len(Numeral) : Numeral[i] = s
NumeralValue(s) == CHOOSE i \in 0..(Len(Numeral) - 1) : Numeral[i + 1] = s


(***************************************************************************)
(* JavaScript built-ins the component uses                                 *)
(***************************************************************************)
RECURSIVE JoinElems(_)
RECURSIVE TemplateString(_)
\* Array.prototype.join(","): null elements give the empty string
JoinElems(ms) ==
  IF ms = <<>> THEN <<>>
  ELSE LET h == IF ms[1].v.t = "null" THEN <<>> ELSE TemplateString(ms[1].v)
       IN IF Len(ms) = 1 THEN h ELSE h \o <<T(",")>> \o JoinElems(Tail(ms))
\* String(value), as the template literal `${value}` computes it
TemplateString(v) ==
  CASE v.t = "string" -> IF v.s = "" THEN <<>> ELSE <<T(v.s)>>
    [] v.t = "number" -> <<T(Numeral[v.n + 1])>>
    [] v.t = "boolean" -> <<T(IF v.b THEN "true" ELSE "false")>>
    [] v.t = "null" -> <<T("null")>>
    [] v.t = "array" -> JoinElems(v.m)
    [] OTHER -> <<T("[object Object]")>>

RECURSIVE StringifyMembers(_, _)
RECURSIVE Stringify(_)
StringifyMembers(ms, isObj) ==
  IF ms = <<>> THEN <<>>
  ELSE (IF isObj THEN <<Q(ms[1].k), T(":")>> ELSE <<>>)
       \o Stringify(ms[1].v)
       \o (IF Len(ms) = 1 THEN <<>> ELSE <<T(",")>> \o StringifyMembers(Tail(ms), isObj))
\* JSON.stringify(value, null, 2): the tokens of the text (the indentation is
\* white space between tokens)
Stringify(v) ==
  CASE v.t = "string" -> <<Q(v.s)>>
    [] v.t = "number" -> <<T(Numeral[v.n + 1])>>
    [] v.t = "boolean" -> <<T(IF v.b THEN "true" ELSE "false")>>
    [] v.t = "null" -> <<T("null")>>
    [] v.t = "array" -> <<T("[")>> \o StringifyMembers(v.m, FALSE) \o <<T("]")>>
    [] OTHER -> <<T("{")>> \o StringifyMembers(v.m, TRUE) \o <<T("}")>>

\* obj[key] = value on an object literal: a new key is appended, an existing
\* key keeps its place
PutMember(ms, k, v) ==
  IF \E i \in 1..Len(ms) : ms[i].k = k
  THEN [i \in 1..Len(ms) |-> IF ms[i].k = k THEN Member(k, v) ELSE ms[i]]
  ELSE Append(ms, Member(k, v))

ParseFail == [ok |-> FALSE, v |-> Null, rest |-> <<>>]
ParseOk(v, rest) == [ok |-> TRUE, v |-> v, rest |-> rest]
IsTok(ts, s) == ts # <<>> /\ ts[1] = T(s)

RECURSIVE ParseValue(_)
RECURSIVE ParseMembers(_, _)
RECURSIVE ParseElems(_, _)
\* the JSON grammar's value, read from the front of ts
ParseValue(ts) ==
  IF ts = <<>> THEN ParseFail
  ELSE LET h == ts[1]
           r == Tail(ts)
       IN CASE h.q -> ParseOk(Str(h.s), r)
            [] ~h.q /\ h.s = "{" ->
                 IF IsTok(r, "}") THEN ParseOk(Obj(<<>>), Tail(r)) ELSE ParseMembers(r, <<>>)
            [] ~h.q /\ h.s = "[" ->
                 IF IsTok(r, "]") THEN ParseOk(Arr(<<>>), Tail(r)) ELSE ParseElems(r, <<>>)
            [] ~h.q /\ h.s = "true" -> ParseOk(Bool(TRUE), r)
            [] ~h.q /\ h.s = "false" -> ParseOk(Bool(FALSE), r)
            [] ~h.q /\ h.s = "null" -> ParseOk(Null, r)
            [] ~h.q /\ IsNumeral(h.s) -> ParseOk(Num(NumeralValue(h.s)), r)
            [] OTHER -> ParseFail
ParseMembers(ts, acc) ==
  IF Len(ts) < 2 \/ ~ts[1].q \/ ts[2] # T(":") THEN ParseFail
  ELSE LET pv == ParseValue(SubSeq(ts, 3, Len(ts)))
           ms == PutMember(acc, ts[1].s, pv.v)
       IN IF ~pv.ok THEN ParseFail
          ELSE IF IsTok(pv.rest, "}") THEN ParseOk(Obj(ms), Tail(pv.rest))
          ELSE IF IsTok(pv.rest, ",") THEN ParseMembers(Tail(pv.rest), ms)
          ELSE ParseFail
ParseElems(ts, acc) ==
  LET pv == ParseValue(ts)
      ms == Append(acc, Elem(pv.v))
  IN IF ~pv.ok THEN ParseFail
     ELSE IF IsTok(pv.rest, "]") THEN ParseOk(Arr(ms), Tail(pv.rest))
     ELSE IF IsTok(pv.rest, ",") THEN ParseElems(Tail(pv.rest), ms)
     ELSE ParseFail

\* JSON.parse(text): ok is FALSE where it throws a SyntaxError
JSONParse(text) ==
  LET pv == ParseValue(text)
  IN IF pv.ok /\ pv.rest = <<>> THEN [ok |-> TRUE, v |-> pv.v] ELSE [ok |-> FALSE, v |-> Null]

\* Number(text) with Number.isFinite: the empty string converts to 0, a
\* numeral to its value, any other text of the model to NaN
NumberOf(text) ==
  IF text = <<>> THEN [finite |-> TRUE, n |-> 0]
  ELSE IF Len(text) = 1 /\ ~text[1].q /\ IsNumeral(text[1].s)
       THEN [finite |-> TRUE, n |-> NumeralValue(text[1].s)]
       ELSE [finite |-> FALSE, n |-> 0]

(***************************************************************************)
(* normalizeNodeData, lines 13-24                                          *)
(***************************************************************************)
\* a row of NodeData["text"]; a row with no key has hasKey = FALSE
Row(k, v) == [hasKey |-> TRUE, key |-> k, value |-> v, type |-> v.t]
BareRow(v) == [hasKey |-> FALSE, key |-> "", value |-> v, type |-> v.t]
\* !row.key: the key is absent or the empty string
NoKey(row) == ~row.hasKey \/ row.key = ""

RECURSIVE NormalizeObj(_, _)
\* the forEach of lines 18-22
NormalizeObj(rows, obj) ==
  IF rows = <<>> THEN obj
  ELSE LET row == rows[1]
       IN NormalizeObj(Tail(rows),
            IF row.type # "array" /\ row.type # "object" /\ ~NoKey(row)
            THEN PutMember(obj, row.key, row.value)
            ELSE obj)

\* a normalizer that takes any single row for a bare value
normalizeNodeDataOneRowPlain(nodeRows) ==
  IF Len(nodeRows) = 0 THEN <<T("{"), T("}")>>
  ELSE IF Len(nodeRows) = 1 THEN TemplateString(nodeRows[1].value)
  ELSE Stringify(Obj(NormalizeObj(nodeRows, <<>>)))
normalizeNodeData(nodeRows) ==
  IF Len(nodeRows) = 0 THEN <<T("{"), T("}")>>
  ELSE IF Len(nodeRows) = 1 /\ NoKey(nodeRows[1]) THEN TemplateString(nodeRows[1].value)
  ELSE Stringify(Obj(NormalizeObj(nodeRows, <<>>)))

(***************************************************************************)
(* jsonPathToString, lines 27-31                                           *)
(***************************************************************************)
\* a segment shown without its quotes
SegTextBare(seg) == IF seg.isIdx THEN Numeral[seg.idx + 1] ELSE seg.key
\* typeof seg === "number" ? seg : `"${seg}"`, as join() turns it into text
SegText(seg) == IF seg.isIdx THEN Numeral[seg.idx + 1] ELSE "\"" \o seg.key \o "\""
RECURSIVE JoinSegments(_, _)
\* segments.join(sep)
JoinSegments(segs, sep) ==
  IF segs = <<>> THEN ""
  ELSE IF Len(segs) = 1 THEN SegText(segs[1])
  ELSE SegText(segs[1]) \o sep \o JoinSegments(Tail(segs), sep)
\* hasPath is FALSE for a path that is undefined
jsonPathToString(hasPath, path) ==
  IF ~hasPath \/ Len(path) = 0 THEN "$"
  ELSE "$[" \o JoinSegments(path, "][") \o "]"

RECURSIVE RawText(_)
\* the characters of a text, as the string editedValue holds
RawText(text) ==
  IF text = <<>> THEN ""
  ELSE (IF text[1].q THEN "\"" \o text[1].s \o "\"" ELSE text[1].s) \o RawText(Tail(text))

(***************************************************************************)
(* The value saveEdit writes, lines 63-88                                  *)
(***************************************************************************)
\* a parse that looks at the type of the first row before it tries JSON.parse
parseEditTypeFirst(text, node) ==
  IF Len(node.text) > 0 /\ node.text[1].type = "string" THEN Str(RawText(text))
  ELSE IF JSONParse(text).ok THEN JSONParse(text).v
  ELSE IF Len(node.text) > 0 /\ node.text[1].type = "number" /\ NumberOf(text).finite
       THEN Num(NumberOf(text).n)
  ELSE IF Len(node.text) > 0 /\ node.text[1].type = "boolean" THEN Bool(text = <<T("true")>>)
  ELSE IF Len(node.text) > 0 /\ node.text[1].type = "null" THEN Null
  ELSE Str(RawText(text))
\* a parse with no Number.isFinite test: NaN goes out as the number it is
parseEditNoFinite(text, node) ==
  IF JSONParse(text).ok THEN JSONParse(text).v
  ELSE IF Len(node.text) > 0 /\ node.text[1].type = "number" THEN Num(NumberOf(text).n)
  ELSE IF Len(node.text) > 0 /\ node.text[1].type = "boolean" THEN Bool(text = <<T("true")>>)
  ELSE IF Len(node.text) > 0 /\ node.text[1].type = "null" THEN Null
  ELSE Str(RawText(text))
parseEdit(text, node) ==
  LET parsed == JSONParse(text)
      n == NumberOf(text)
  IN IF parsed.ok THEN parsed.v
     ELSE IF Len(node.text) > 0
          THEN CASE node.text[1].type = "string" -> Str(RawText(text))
                 [] node.text[1].type = "number" ->
                      IF n.finite THEN Num(n.n) ELSE Str(RawText(text))
                 [] node.text[1].type = "boolean" -> Bool(text = <<T("true")>>)
                 [] node.text[1].type = "null" -> Null
                 [] OTHER -> Str(RawText(text))
          ELSE Str(RawText(text))

(***************************************************************************)
(* jsonc-parser: modify (setProperty) and applyEdits, lines 91-94          *)
(***************************************************************************)
NotFound == [found |-> FALSE, node |-> NoText]
MemberIndex(ms, k) == CHOOSE i \in 1..Len(ms) : ms[i].k = k /\ \A j \in 1..(i - 1) : ms[j].k # k
HasMember(ms, k) == \E i \in 1..Len(ms) : ms[i].k = k

\* the index in node.m of the child that segment seg names, 0 if there is none
ChildIndex(node, seg) ==
  IF seg.isIdx
  THEN IF node.t = "array" /\ seg.idx >= 0 /\ seg.idx < Len(node.m) THEN seg.idx + 1 ELSE 0
  ELSE IF node.t = "object" /\ HasMember(node.m, seg.key) THEN MemberIndex(node.m, seg.key) ELSE 0

RECURSIVE FindNode(_, _)
\* findNodeAtLocation(root, path)
FindNode(node, path) ==
  IF node.t = "none" THEN NotFound
  ELSE IF path = <<>> THEN [found |-> TRUE, node |-> node]
  ELSE IF ChildIndex(node, path[1]) = 0 THEN NotFound
  ELSE FindNode(node.m[ChildIndex(node, path[1])].v, Tail(path))

RECURSIVE Wrap(_, _)
\* the value modify builds for the segments that have no node yet
Wrap(segs, v) ==
  IF segs = <<>> THEN v
  ELSE IF segs[1].isIdx THEN Arr(<<Elem(Wrap(Tail(segs), v))>>)
  ELSE Obj(<<Member(segs[1].key, Wrap(Tail(segs), v))>>)

\* whether modify can set segment seg in the node parent; it throws otherwise
CanSet(parent, seg) ==
  \/ parent.t = "object" /\ ~seg.isIdx
  \/ parent.t = "array" /\ seg.isIdx /\ seg.idx >= -1

\* a modify that replaces the parent's children by the one it sets
SetChildAlone(parent, seg, v) ==
  [parent EXCEPT !.m = <<IF seg.isIdx THEN Elem(v) ELSE Member(seg.key, v)>>]
\* a modify that inserts even where the child exists
SetChildInsertOnly(parent, seg, v) ==
  [parent EXCEPT !.m = Append(parent.m, IF seg.isIdx THEN Elem(v) ELSE Member(seg.key, v))]
\* the node parent with segment seg set to v: an existing child is replaced,
\* a missing property or element is inserted
SetChild(parent, seg, v) ==
  LET i == ChildIndex(parent, seg)
      new == IF seg.isIdx THEN Elem(v) ELSE Member(seg.key, v)
  IN IF i # 0 THEN [parent EXCEPT !.m[i] = new]
     ELSE IF seg.isIdx /\ seg.idx = 0 THEN [parent EXCEPT !.m = <<new>> \o parent.m]
     ELSE [parent EXCEPT !.m = Append(parent.m, new)]

RECURSIVE PutAt(_, _, _, _)
\* the tree with SetChild applied to the node at path
PutAt(node, path, seg, v) ==
  IF path = <<>> THEN SetChild(node, seg, v)
  ELSE LET i == ChildIndex(node, path[1])
       IN [node EXCEPT !.m[i].v = PutAt(node.m[i].v, Tail(path), seg, v)]

\* applyEdits(original, modify(original, path, value, ...)): ok is FALSE where
\* modify throws
Modify(original, path, value) ==
  LET ks == {k \in 0..(Len(path) - 1) : FindNode(original, SubSeq(path, 1, k)).found}
      k == CHOOSE x \in ks : \A y \in ks : y <= x
      parent == FindNode(original, SubSeq(path, 1, k)).node
      val == Wrap(SubSeq(path, k + 2, Len(path)), value)
  IN IF path = <<>> THEN [ok |-> TRUE, text |-> value]
     ELSE IF ks = {} THEN [ok |-> TRUE, text |-> Wrap(path, value)]
     ELSE IF CanSet(parent, path[k + 1])
          THEN [ok |-> TRUE, text |-> PutAt(original, SubSeq(path, 1, k), path[k + 1], val)]
          ELSE [ok |-> FALSE, text |-> original]

(***************************************************************************)
(* The documents, nodes and keystrokes of the model                        *)
(***************************************************************************)
\* {"a":{"b":1}}
DocA == Obj(<<Member("a", Obj(<<Member("b", Num(1))>>))>>)
\* {"a":{"b":1},"c":[1,2]}
DocB == Obj(<<Member("a", Obj(<<Member("b", Num(1))>>)),
              Member("c", Arr(<<Elem(Num(1)), Elem(Num(2))>>))>>)
\* {"a":[1]}
DocC == Obj(<<Member("a", Arr(<<Elem(Num(1))>>))>>)
\* the texts the text editor can put into the store
Docs == {DocA, DocB, DocC}

\* selectedNode === null
NoNode == [sel |-> FALSE, id |-> "", text |-> <<>>, hasPath |-> FALSE, path |-> <<>>]
Node(id, text, path) == [sel |-> TRUE, id |-> id, text |-> text, hasPath |-> TRUE, path |-> path]
NodeRoot == Node("1", <<Row("a", DocA.m[1].v)>>, <<>>)
NodeA == Node("2", <<Row("b", Num(1))>>, <<Key("a")>>)
NodeB == Node("3", <<BareRow(Num(1))>>, <<Key("a"), Key("b")>>)
NodeC0 == Node("4", <<BareRow(Num(1))>>, <<Key("c"), Idx(0)>>)
NodeNoPath == [sel |-> TRUE, id |-> "5", text |-> <<BareRow(Str("x"))>>,
               hasPath |-> FALSE, path |-> <<>>]
Nodes == {NodeRoot, NodeA, NodeB, NodeC0, NodeNoPath}

\* the texts a change of the Textarea can leave in it
Typed == { <<T("2")>>, <<T("yes")>> }

\* the model follows at most MaxSaves calls of saveEdit that reach line 62
MaxSaves == 2


(***************************************************************************)
(* The component                                                           *)
(***************************************************************************)
\* a dependency list that leaves out nodeData?.id
DepsOpenedOnly == <<"", opened>>
\* the dependency list of the effect, line 122
Deps == <<nodeData.id, opened>>
\* no effect is waiting to run: the next event can be handled
Settled == effectDeps = Deps
\* the buttons and the Textarea exist only while the modal is shown
Shown == Settled /\ opened

\* what a step records in last; only saveEdit and the effect fill in more
\* than the step's name
Quiet(op) ==
  [op |-> op, sel |-> FALSE, hasPath |-> FALSE, nodeId |-> "", path |-> <<>>,
   rows |-> <<>>, draft |-> <<>>, owner |-> "", startText |-> NoText, wasEditing |-> FALSE,
   storeBefore |-> NoText, mirrorBefore |-> NoText,
   read |-> FALSE, original |-> NoText, newValue |-> Null,
   patched |-> FALSE, newJson |-> NoText,
   raised |-> FALSE, reported |-> FALSE,
   setContents |-> "no", hasChanges |-> FALSE, skipUpdate |-> FALSE,
   setJson |-> "no", text |-> ""]
\* what saveEdit finds when it is called
Saving ==
  [Quiet("saveEdit") EXCEPT !.sel = nodeData.sel, !.hasPath = nodeData.hasPath,
                            !.nodeId = nodeData.id, !.path = nodeData.path,
                            !.rows = nodeData.text, !.draft = editedValue, !.owner = draftOwner,
                            !.startText = jsonAtStart, !.wasEditing = editing,
                            !.storeBefore = json, !.mirrorBefore = contents]

\* the history of an edit session ends with it
EndSession == jsonAtStart' = NoText /\ draftOwner' = ""

\* a saveEdit that patched the text it saw when editing began
GetJsonAtStart == jsonAtStart
\* useJson getJson(), line 62: the text the store holds now
GetJson == json

\* a test that forgets the path
NoSelectionNodeOnly == ~nodeData.sel
\* the test of line 57
NoSelection == ~nodeData.sel \/ ~nodeData.hasPath

\* a cancelEdit that leaves the draft in place
CancelStateKeepsDraft == editing' = FALSE /\ UNCHANGED editedValue
\* the state cancelEdit sets, lines 52-53
CancelState == editedValue' = <<>> /\ editing' = FALSE

\* an end of saveEdit that forgets onClose()
CloseStateStaysOpen == editing' = FALSE /\ UNCHANGED opened
\* the end of saveEdit, lines 113-114: setEditing(false); onClose().  onClose
\* is the parent's handler: it hides the modal, so opened becomes false.
CloseState == editing' = FALSE /\ opened' = FALSE

\* an effect that forgets setEditedValue("")
ResetStateKeepsDraft == editing' = FALSE /\ UNCHANGED editedValue
\* the state the effect sets, lines 120-121
ResetState == editing' = FALSE /\ editedValue' = <<>>

\* setContents without its own try: its failure reaches the catch of line 107
WriteStoresOneTry(newJson, mirrorFails, storeFails) ==
  /\ contents' = IF mirrorFails THEN contents ELSE newJson
  /\ json' = IF mirrorFails \/ storeFails THEN json ELSE newJson
  /\ last' = [Saving EXCEPT !.read = TRUE, !.original = GetJson,
                            !.newValue = parseEdit(editedValue, nodeData),
                            !.patched = TRUE, !.newJson = newJson,
                            !.setContents = IF mirrorFails THEN "threw" ELSE "done",
                            !.hasChanges = TRUE, !.skipUpdate = TRUE,
                            !.setJson = IF mirrorFails THEN "no"
                                        ELSE IF storeFails THEN "threw" ELSE "done",
                            !.reported = (mirrorFails \/ storeFails)]
\* lines 98-106: setContents inside its own try, then setJson
WriteStores(newJson, mirrorFails, storeFails) ==
  /\ contents' = IF mirrorFails THEN contents ELSE newJson
  /\ json' = IF storeFails THEN json ELSE newJson
  /\ last' = [Saving EXCEPT !.read = TRUE, !.original = GetJson,
                            !.newValue = parseEdit(editedValue, nodeData),
                            !.patched = TRUE, !.newJson = newJson,
                            !.setContents = IF mirrorFails THEN "threw" ELSE "done",
                            !.hasChanges = TRUE, !.skipUpdate = TRUE,
                            !.setJson = IF storeFails THEN "threw" ELSE "done",
                            !.reported = storeFails]

Init ==
  /\ nodeData = NoNode
  /\ opened = FALSE
  /\ editing = FALSE
  /\ editedValue = <<>>
  /\ json \in Docs
  /\ contents = json
  /\ effectDeps = Deps
  /\ jsonAtStart = NoText
  /\ draftOwner = ""
  /\ depsChanged = FALSE
  /\ saves = 0
  /\ last = Quiet("init")

\* the graph sets state.selectedNode (line 34)
SelectNode(n) ==
  /\ Settled
  /\ n # nodeData
  /\ nodeData' = n
  /\ depsChanged' = (depsChanged \/ n.id # nodeData.id)
  /\ last' = Quiet("select")
  /\ UNCHANGED <<opened, editing, editedValue, json, contents, effectDeps,
                 jsonAtStart, draftOwner, saves>>

\* the parent shows the modal (the opened prop, line 33)
OpenModal ==
  /\ Settled
  /\ ~opened
  /\ opened' = TRUE
  /\ depsChanged' = TRUE
  /\ last' = Quiet("open")
  /\ UNCHANGED <<nodeData, editing, editedValue, json, contents, effectDeps,
                 jsonAtStart, draftOwner, saves>>

\* Modal's own onClose (line 125): escape or a click outside
RequestClose ==
  /\ Shown
  /\ opened' = FALSE
  /\ depsChanged' = TRUE
  /\ last' = Quiet("close")
  /\ UNCHANGED <<nodeData, editing, editedValue, json, contents, effectDeps,
                 jsonAtStart, draftOwner, saves>>

\* the text editor changes the document: the store and the editor hold d
ExternalChange(d) ==
  /\ Settled
  /\ d # json
  /\ json' = d
  /\ contents' = d
  /\ last' = Quiet("external")
  /\ UNCHANGED <<nodeData, opened, editing, editedValue, effectDeps,
                 jsonAtStart, draftOwner, depsChanged, saves>>

\* startEdit, lines 46-49
startEdit ==
  /\ Shown
  /\ ~editing
  /\ editedValue' = normalizeNodeData(nodeData.text)
  /\ editing' = TRUE
  /\ jsonAtStart' = json
  /\ draftOwner' = nodeData.id
  /\ depsChanged' = FALSE
  /\ last' = Quiet("startEdit")
  /\ UNCHANGED <<nodeData, opened, json, contents, effectDeps, saves>>

\* Textarea onChange, line 146
Change(text) ==
  /\ Shown
  /\ editing
  /\ text # editedValue
  /\ editedValue' = text
  /\ depsChanged' = FALSE
  /\ last' = Quiet("change")
  /\ UNCHANGED <<nodeData, opened, editing, json, contents, effectDeps,
                 jsonAtStart, draftOwner, saves>>

\* a cancelEdit that puts the text of startEdit back into the store
cancelEditReverts ==
  /\ Shown
  /\ editing
  /\ CancelState
  /\ json' = jsonAtStart
  /\ depsChanged' = FALSE
  /\ last' = Quiet("cancelEdit")
  /\ EndSession
  /\ UNCHANGED <<nodeData, opened, contents, effectDeps, saves>>
\* cancelEdit, lines 51-54 (the Cancel button, line 169)
cancelEdit ==
  /\ Shown
  /\ editing
  /\ CancelState
  /\ depsChanged' = FALSE
  /\ last' = Quiet("cancelEdit")
  /\ EndSession
  /\ UNCHANGED <<nodeData, opened, json, contents, effectDeps, saves>>

\* CloseButton onClick, lines 133-138
CloseButton ==
  /\ Shown
  /\ IF editing THEN CancelState ELSE UNCHANGED <<editedValue, editing>>
  /\ opened' = FALSE
  /\ depsChanged' = TRUE
  /\ last' = Quiet("closeButton")
  /\ EndSession
  /\ UNCHANGED <<nodeData, json, contents, effectDeps, saves>>

\* saveEdit, lines 56-115.  getFails, mirrorFails and storeFails say which of
\* getJson, setContents and setJson throws in this call.
saveEdit(getFails, mirrorFails, storeFails) ==
  LET original == GetJson
      newValue == parseEdit(editedValue, nodeData)
      r == Modify(original, nodeData.path, newValue)
  IN
  /\ Shown
  /\ editing
  /\ IF NoSelection
     THEN \* lines 57-60: cancelEdit(); return
          /\ ~getFails /\ ~mirrorFails /\ ~storeFails
          /\ CancelState
          /\ depsChanged' = FALSE
          /\ last' = Saving
          /\ EndSession
          /\ UNCHANGED <<opened, json, contents, saves>>
     ELSE /\ saves < MaxSaves
          /\ saves' = saves + 1
          /\ IF getFails
             THEN \* line 62 throws: nothing after it runs
                  /\ ~mirrorFails /\ ~storeFails
                  /\ depsChanged' = FALSE
                  /\ last' = [Saving EXCEPT !.read = TRUE, !.raised = TRUE]
                  /\ UNCHANGED <<opened, editing, editedValue, json, contents,
                                 jsonAtStart, draftOwner>>
             ELSE IF ~r.ok
             THEN \* line 91 throws: lines 107-114
                  /\ ~mirrorFails /\ ~storeFails
                  /\ CloseState
                  /\ depsChanged' = TRUE
                  /\ last' = [Saving EXCEPT !.read = TRUE, !.original = original,
                                            !.newValue = newValue,
                                            !.reported = TRUE]
                  /\ EndSession
                  /\ UNCHANGED <<editedValue, json, contents>>
             ELSE \* lines 94-114
                  /\ WriteStores(r.text, mirrorFails, storeFails)
                  /\ CloseState
                  /\ depsChanged' = TRUE
                  /\ EndSession
                  /\ UNCHANGED editedValue
  /\ UNCHANGED <<nodeData, effectDeps>>

\* the effect of lines 119-122, run after a render in which nodeData?.id or
\* opened differs from the render it last ran after
ResetEffect ==
  /\ ~Settled
  /\ ResetState
  /\ effectDeps' = Deps
  /\ last' = [Quiet("effect") EXCEPT !.wasEditing = editing, !.draft = editedValue,
                                    !.owner = draftOwner]
  /\ EndSession
  /\ UNCHANGED <<nodeData, opened, json, contents, depsChanged, saves>>

Next ==
  \/ \E n \in Nodes \cup {NoNode} : SelectNode(n)
  \/ OpenModal
  \/ RequestClose
  \/ \E d \in Docs : ExternalChange(d)
  \/ startEdit
  \/ \E text \in Typed : Change(text)
  \/ cancelEdit
  \/ CloseButton
  \/ \E getFails, mirrorFails, storeFails \in BOOLEAN :
       saveEdit(getFails, mirrorFails, storeFails)
  \/ ResetEffect

Spec == Init /\ [][Next]_vars

(***************************************************************************)
(* The functions of the module on their own: normalizeNodeData,            *)
(* jsonPathToString, the parse of saveEdit and saveEdit itself, applied to *)
(* rows, paths and drafts that the nodes of Nodes and Typed do not give    *)
(***************************************************************************)
FnRows ==
  { <<>>,
    <<BareRow(Num(1))>>, <<BareRow(Str("x"))>>, <<BareRow(Bool(TRUE))>>, <<BareRow(Null)>>,
    <<BareRow(Num(1)), BareRow(Num(2))>>,
    <<Row("a", Num(1))>>,
    <<Row("a", Str("x")), Row("b", Bool(FALSE)), Row("c", Arr(<<Elem(Num(1))>>)),
      Row("d", Obj(<<>>)), Row("e", Null)>>,
    <<Row("c", Arr(<<>>)), Row("a", Num(3))>>,
    <<Row("d", Obj(<<Member("x", Num(1))>>))>>,
    <<Row("", Num(1))>>,
    <<Row("", Num(1)), Row("a", Num(2))>> }
\* the paths that are defined; FnNodes adds the node whose path is undefined
FnPaths ==
  { <<>>, <<Key("a")>>, <<Idx(0)>>, <<Key("a"), Idx(2), Key("b")>>, <<Idx(1), Idx(3)>> }
FnTexts ==
  { <<>>, <<T("true")>>, <<T("false")>>, <<T("null")>>, <<T("2")>>, <<T("yes")>>,
    <<Q("x")>>, <<T("{"), Q("x"), T(":"), T("1"), T("}")>>, <<T("["), T("1"), T(","), T("2"), T("]")>>,
    <<T("{"), Q("x")>>, <<T("2"), T("2")>> }
FnNodes ==
  { [sel |-> TRUE, id |-> "1", text |-> rows, hasPath |-> hp, path |-> path] :
      rows \in FnRows, hp \in BOOLEAN, path \in FnPaths } \ 
  { n \in [sel : {TRUE}, id : {"1"}, text : FnRows, hasPath : {FALSE}, path : FnPaths] :
      n.path # <<>> }

FnInit ==
  /\ nodeData \in FnNodes
  /\ editedValue \in FnTexts
  /\ opened = TRUE
  /\ editing = TRUE
  /\ json = DocA
  /\ contents = json
  /\ effectDeps = Deps
  /\ jsonAtStart = json
  /\ draftOwner = nodeData.id
  /\ depsChanged = FALSE
  /\ saves = 0
  /\ last = Quiet("init")

\* initialContent, line 43
InitialContent ==
  /\ last' = [Quiet("normalizeNodeData") EXCEPT !.rows = nodeData.text,
                                               !.draft = normalizeNodeData(nodeData.text)]
  /\ UNCHANGED <<nodeData, opened, editing, editedValue, json, contents,
                 effectDeps, jsonAtStart, draftOwner, depsChanged, saves>>
\* the JSON path the modal shows, line 184
ShowPath ==
  /\ last' = [Quiet("jsonPathToString") EXCEPT
                !.hasPath = nodeData.hasPath, !.path = nodeData.path,
                !.text = jsonPathToString(nodeData.hasPath, nodeData.path)]
  /\ UNCHANGED <<nodeData, opened, editing, editedValue, json, contents,
                 effectDeps, jsonAtStart, draftOwner, depsChanged, saves>>
\* the parse of saveEdit, lines 63-88
ParseDraft ==
  /\ last' = [Quiet("parseEdit") EXCEPT !.rows = nodeData.text, !.draft = editedValue,
                                       !.newValue = parseEdit(editedValue, nodeData)]
  /\ UNCHANGED <<nodeData, opened, editing, editedValue, json, contents,
                 effectDeps, jsonAtStart, draftOwner, depsChanged, saves>>

FnNext ==
  \/ InitialContent
  \/ ShowPath
  \/ ParseDraft
  \/ \E getFails \in BOOLEAN, mirrorFails \in BOOLEAN, storeFails \in BOOLEAN :
       saveEdit(getFails, mirrorFails, storeFails)
FnSpec == FnInit /\ [][FnNext]_vars


(***************************************************************************)
(* Properties                                                              *)
(***************************************************************************)
\* the text modify and applyEdits give for what the last saveEdit found
Patch == Modify(last.storeBefore, last.path, last.newValue)
\* the last step was a saveEdit that got past line 62
Patching == last.op = "saveEdit" /\ last.read /\ ~last.raised
Idle == ~editing /\ editedValue = <<>>

\* C1: the text a successful save writes to the store is the patch applied to
\* the text the store held when saveEdit was called, whatever the store held
\* when startEdit ran.
C1_SavePatchesLatestText ==
  (last.op = "saveEdit" /\ last.setJson = "done") =>
    /\ last.original = last.storeBefore
    /\ Patch.ok
    /\ json = Patch.text
\* a successful save after the store changed during the edit, where patching
\* the text of startEdit would have given another document
C1_Witness ==
  /\ last.op = "saveEdit" /\ last.setJson = "done"
  /\ last.startText # last.storeBefore
  /\ json # Modify(last.startText, last.path, last.newValue).text

\* C2: when modify throws, the failure is reported with console.error, neither
\* the store nor the text editor is written, editing is false and the modal
\* is closed.
C2_PatchFailureContained ==
  (Patching /\ ~Patch.ok) =>
    /\ last.reported
    /\ last.setContents = "no" /\ last.setJson = "no"
    /\ json = last.storeBefore /\ contents = last.mirrorBefore
    /\ ~editing /\ ~opened
C2_Witness == Patching /\ ~Patch.ok /\ last.wasEditing /\ last.reported

\* C3 (as claimed): a save whose node's path does not resolve in the text read
\* leaves the store's text unchanged and reports a failure.
C3_Original ==
  (Patching /\ ~FindNode(last.original, last.path).found) =>
    (json = last.storeBefore /\ last.reported)

\* C4: when setContents throws in a save whose patch was computed, nothing is
\* raised or reported for it, the text editor keeps its text, setJson is still
\* called and, unless setJson throws too, the store holds the new text.
C4_MirrorFailureSwallowed ==
  (last.op = "saveEdit" /\ last.setContents = "threw") =>
    /\ ~last.raised
    /\ contents = last.mirrorBefore
    /\ last.setJson # "no"
    /\ last.setJson = "done" => (json = Patch.text /\ ~last.reported)
    /\ ~editing /\ ~opened
C4_Witness ==
  /\ last.op = "saveEdit" /\ last.setContents = "threw" /\ last.setJson = "done"
  /\ json # last.storeBefore /\ contents # json

\* C5 (as claimed): whichever collaborator fails, a saveEdit that got to
\* reading the text raises nothing and ends with editing false and the modal
\* closed.
C5_Original ==
  (last.op = "saveEdit" /\ last.read) => (~last.raised /\ ~editing /\ ~opened)

\* C6: a save with no selected node, or with a node that has no path, reads
\* and writes neither the store nor the text editor and clears the session.
C6_NoSelectionIsCancel ==
  (last.op = "saveEdit" /\ (~last.sel \/ ~last.hasPath)) =>
    /\ ~last.read
    /\ last.setContents = "no" /\ last.setJson = "no"
    /\ json = last.storeBefore /\ contents = last.mirrorBefore
    /\ Idle
C6_Witness ==
  /\ last.op = "saveEdit" /\ last.sel /\ ~last.hasPath
  /\ last.wasEditing /\ last.draft # <<>>

\* C7: after a save in which nothing failed, the store and the text editor
\* hold the same text, the patch of the text read; in it the node's path, if
\* it resolved in the text read, holds the value parsed from the draft (the
\* first row's type deciding a draft that is not JSON); setContents was called with
\* hasChanges and skipUpdate true.  {"a":{"b":1}} with path ["a","b"] and
\* draft 2 gives {"a":{"b":2}}.
C7_SuccessfulSave ==
  (last.op = "saveEdit" /\ last.setContents = "done" /\ last.setJson = "done") =>
    /\ json = contents
    /\ json = Patch.text
    /\ last.newValue = parseEdit(last.draft, [text |-> last.rows])
    /\ FindNode(last.storeBefore, last.path).found =>
         (FindNode(json, last.path).found /\ FindNode(json, last.path).node = last.newValue)
    /\ last.hasChanges /\ last.skipUpdate
    /\ (last.storeBefore = DocA /\ last.path = <<Key("a"), Key("b")>>
          /\ last.draft = <<T("2")>>)
       => json = Obj(<<Member("a", Obj(<<Member("b", Num(2))>>))>>)
C7_Witness ==
  /\ last.op = "saveEdit" /\ last.setContents = "done" /\ last.setJson = "done"
  /\ last.storeBefore = DocA /\ last.path = <<Key("a"), Key("b")>>
  /\ last.draft = <<T("2")>>
  /\ contents = Obj(<<Member("a", Obj(<<Member("b", Num(2))>>))>>)

\* C8: a draft belongs to the node startEdit ran on: startEdit sets it to
\* normalizeNodeData of the selected node's rows, while editing it is the draft
\* of the selected node, and a save that gets to patching patches the path of
\* the node whose startEdit began the draft, with the value parsed from it.
C8_DraftStaysWithNode ==
  /\ last.op = "startEdit" =>
       (editedValue = normalizeNodeData(nodeData.text) /\ draftOwner = nodeData.id)
  /\ (Settled /\ editing) => draftOwner = nodeData.id
  /\ (last.op = "saveEdit" /\ last.read) => last.owner = last.nodeId
  /\ (last.op = "saveEdit" /\ last.patched) =>
       last.newValue = parseEdit(last.draft, [text |-> last.rows])
\* the effect has just dropped the draft of one node because another node is
\* selected
C8_Witness ==
  /\ last.op = "effect" /\ last.wasEditing /\ last.draft # <<>>
  /\ nodeData.sel /\ last.owner # "" /\ last.owner # nodeData.id
  /\ opened

\* C9: once nodeData?.id or opened has changed, the session is
\* {editing: false, editedValue: ""} whenever the next event can be handled.
C9_ResetBeforeNextEvent ==
  /\ (depsChanged /\ Settled) => Idle
  /\ last.op = "effect" => Idle
C9_Witness ==
  /\ depsChanged /\ Settled
  /\ last.op = "effect" /\ last.wasEditing /\ last.draft # <<>>

\* C10 (as claimed): right after cancelEdit and right after saveEdit (no
\* selection, patch success, patch failure) the session is
\* {editing: false, editedValue: ""}.
C10_Original ==
  ((last.op = "cancelEdit" \/ last.op = "saveEdit") /\ ~last.raised) => Idle
\* C10 (amended): right after cancelEdit and after a saveEdit with no
\* selection the session is {editing: false, editedValue: ""}; after a saveEdit
\* that got to patching, editing is false, editedValue still holds the draft
\* and the effect is due, which empties it.
C10_DraftDiscarded ==
  /\ last.op = "cancelEdit" => Idle
  /\ (last.op = "saveEdit" /\ ~last.read) => Idle
  /\ Patching => (~editing /\ editedValue = last.draft /\ ~Settled)
  /\ last.op = "effect" => Idle
C10_Witness == Patching /\ last.patched /\ ~editing /\ editedValue # <<>>


\* the steps of the component other than saveEdit
NoSaveOps == {"startEdit", "change", "cancelEdit", "closeButton", "close", "effect"}

\* C11: startEdit, a change of the Textarea, cancelEdit, closing the modal and
\* the effect leave the store's text and the text editor's text as they were.
C11_OnlySaveWrites ==
  [][last'.op \in NoSaveOps => (json' = json /\ contents' = contents)]_vars
\* an edit session that began, was typed in and was dropped by the effect,
\* in a run with no save
C11_Witness ==
  /\ last.op = "effect" /\ last.wasEditing /\ last.draft \in Typed
  /\ saves = 0 /\ json \in Docs /\ contents = json

RECURSIVE PathsOf(_)
\* the paths that resolve in a document
PathsOf(v) ==
  IF v.t = "none" THEN {}
  ELSE {<<>>} \cup
       UNION { { <<IF v.t = "array" THEN Idx(i - 1) ELSE Key(v.m[i].k)>> \o p :
                   p \in PathsOf(v.m[i].v) } : i \in 1..Len(v.m) }
IsPrefix(p, q) == Len(p) <= Len(q) /\ SubSeq(q, 1, Len(p)) = p
\* a successful save that got its text into the store
Saved == last.op = "saveEdit" /\ last.setJson = "done"

C19_Original ==
  (last.op = "saveEdit" /\ last.storeBefore = last.mirrorBefore /\ last.setJson = "threw")
    => ~(contents = last.newJson /\ json = last.storeBefore /\ contents # json)


\* the type of the first row, "" where there is none
FirstType(rows) == IF Len(rows) > 0 THEN rows[1].type ELSE ""
Parsed == last.op = "parseEdit"

\* C13: when the draft is valid JSON the value saveEdit writes is what
\* JSON.parse gives, whatever the type of the first row: true on a row of any
\* type is the boolean true, {"x":1} is an object.
C13_ValidJsonWins ==
  /\ (Parsed /\ JSONParse(last.draft).ok) => last.newValue = JSONParse(last.draft).v
  /\ (Parsed /\ last.draft = <<T("true")>>) => last.newValue = Bool(TRUE)
  /\ (Parsed /\ last.draft = <<T("2")>>) => last.newValue = Num(2)
  /\ (Parsed /\ last.draft = <<Q("x")>>) => last.newValue = Str("x")
  /\ (Parsed /\ last.draft = <<T("{"), Q("x"), T(":"), T("1"), T("}")>>)
       => last.newValue = Obj(<<Member("x", Num(1))>>)
C13_Witness ==
  /\ Parsed /\ last.draft = <<T("true")>> /\ FirstType(last.rows) = "string"
  /\ last.newValue = Bool(TRUE)

\* C14: when the draft is not valid JSON the parse gives the text as a string
\* for a first row of type string, the number Number(text) for type number
\* where that is finite and the text otherwise, the boolean (text = "true")
\* for type boolean, null for type null, and the text for any other type and
\* for no first row.
C14_Fallback ==
  (Parsed /\ ~JSONParse(last.draft).ok) =>
    LET ty == FirstType(last.rows)
        verbatim == Str(RawText(last.draft))
    IN /\ ty = "string" => last.newValue = verbatim
       /\ (ty = "number" /\ NumberOf(last.draft).finite)
            => last.newValue = Num(NumberOf(last.draft).n)
       /\ (ty = "number" /\ ~NumberOf(last.draft).finite) => last.newValue = verbatim
       /\ ty = "boolean" => last.newValue = Bool(RawText(last.draft) = "true")
       /\ ty = "null" => last.newValue = Null
       /\ ty \in {"array", "object", ""} => last.newValue = verbatim
C14_Witness ==
  /\ Parsed /\ last.draft = <<T("yes")>> /\ FirstType(last.rows) = "number"
  /\ last.newValue = Str("yes")

\* the scalar rows that have a key
KeyedScalars(rows) ==
  { i \in 1..Len(rows) : rows[i].hasKey /\ rows[i].type \notin {"array", "object"} }
\* C16 (as claimed): normalizeNodeData gives {} for no rows, the plain text of
\* the value for one row that has no key, and otherwise the pretty-printed
\* object of the rows that have a key and are no array or object.
C16_Original ==
  last.op = "normalizeNodeData" =>
    LET rows == last.rows
        out == JSONParse(last.draft)
    IN IF Len(rows) = 0 THEN last.draft = <<T("{"), T("}")>>
       ELSE IF Len(rows) = 1 /\ ~rows[1].hasKey
            THEN last.draft = TemplateString(rows[1].value)
       ELSE /\ out.ok /\ out.v.t = "object" /\ last.draft = Stringify(out.v)
            /\ \A i \in KeyedScalars(rows) :
                 FindNode(out.v, <<Key(rows[i].key)>>) = [found |-> TRUE, node |-> rows[i].value]
            /\ \A j \in 1..Len(out.v.m) :
                 \E i \in KeyedScalars(rows) : out.v.m[j] = Member(rows[i].key, rows[i].value)

\* the text jsonPathToString gives, a bracket group after another
RECURSIVE Groups(_)
Groups(path) ==
  IF path = <<>> THEN ""
  ELSE "[" \o (IF path[1].isIdx THEN Numeral[path[1].idx + 1] ELSE "\"" \o path[1].key \o "\"")
           \o "]" \o Groups(Tail(path))
\* C17: jsonPathToString gives $ for an empty or undefined path and otherwise
\* $ followed by one bracket group for each segment, ["key"] for a string and
\* [n] for a number: ["a",2,"b"] gives $["a"][2]["b"].
C17_PathText ==
  last.op = "jsonPathToString" =>
    /\ (~last.hasPath \/ last.path = <<>>) => last.text = "$"
    /\ (last.hasPath /\ last.path # <<>>) => last.text = "$" \o Groups(last.path)
    /\ (last.hasPath /\ last.path = <<Key("a"), Idx(2), Key("b")>>)
         => last.text = "$[\"a\"][2][\"b\"]"
C17_Witness ==
  /\ last.op = "jsonPathToString" /\ last.hasPath
  /\ last.path = <<Key("a"), Idx(2), Key("b")>>
  /\ last.text = "$[\"a\"][2][\"b\"]"


\* the rows the graph gives for a node whose value is v: one row with no key
\* for a scalar, a row for each field of an object, a row with no key for each
\* element of an array
RowsOf(v) ==
  IF v.t = "object" THEN [i \in 1..Len(v.m) |-> Row(v.m[i].k, v.m[i].v)]
  ELSE IF v.t = "array" THEN [i \in 1..Len(v.m) |-> BareRow(v.m[i].v)]
  ELSE <<BareRow(v)>>
\* the value at the edited path after the last save
ValueAfter == FindNode(json, last.path)
\* the values the normalizer gives back: numbers, booleans, null and objects
\* whose fields are scalars under keys that are not empty
RoundTrips(v) ==
  \/ v.t \in {"number", "boolean", "null"}
  \/ /\ v.t = "object"
     /\ \A i \in 1..Len(v.m) : v.m[i].k # "" /\ v.m[i].v.t \notin {"array", "object"}

\* C15 (as claimed): after a save that set a node to the value V, the text
\* normalizeNodeData gives for the node's new rows parses to V.
C15_Original ==
  (Saved /\ ValueAfter.found)
    => JSONParse(normalizeNodeData(RowsOf(ValueAfter.node))) = [ok |-> TRUE, v |-> last.newValue]
\* C15 (amended): after a save that set a node to a value V that is a number,
\* a boolean, null or an object of scalar fields, the text normalizeNodeData
\* gives for the node's new rows parses to V.
C15_RoundTrip ==
  (Saved /\ ValueAfter.found /\ RoundTrips(last.newValue))
    => JSONParse(normalizeNodeData(RowsOf(ValueAfter.node))) = [ok |-> TRUE, v |-> last.newValue]
C15_Witness ==
  /\ Saved /\ ValueAfter.found
  /\ last.newValue.t = "object" /\ last.newValue.m # <<>> /\ RoundTrips(last.newValue)
  /\ ValueAfter.node = last.newValue

\* C18 (as claimed): startEdit and then saveEdit, with no change of the
\* Textarea between them, on a node of the document leave the value at the
\* node's path as it was.
C18_Original ==
  (/\ Saved
   /\ last.draft = normalizeNodeData(last.rows)
   /\ FindNode(last.storeBefore, last.path).found
   /\ last.rows = RowsOf(FindNode(last.storeBefore, last.path).node))
    => ValueAfter = FindNode(last.storeBefore, last.path)

=============================================================================
